---- MODULE Spec2Model ----
(***************************************************************************)
(* SlideToObsidian: batch conversion of presentation files into a PDF and  *)
(* a Markdown document.  The module models                                 *)
(*   - run_conversion (src/main.py): discovery result, renderer check,     *)
(*     pool sizing, output mapping, process pool, completion loop;         *)
(*   - convert_one / convert_one_worker (src/src/converter.py, worker.py); *)
(*   - split_markdown_by_slides and build_markdown                         *)
(*     (src/src/markdown_builder.py).                                      *)
(* Python strings are sequences of one-character strings, "" is << >>.     *)
(* None is None where a name or message may stand, NoneText where a text   *)
(* may stand and NoneRecord where a record may stand.                      *)
(***************************************************************************)
EXTENDS Integers, Sequences, FiniteSets, TLC

VARIABLES
    \* split_markdown_by_slides: arguments, result, position
    full_md, slide_count, segResult, segPc,
    \* build_markdown: arguments (a record), result, position
    asmArgs, md_content, asmPc,
    \* convert_one / convert_one_worker: the collaborators' behaviour, the
    \* extractor argument (or the worker's global), the outcome, position
    pipeEnv, pipeMd, pipeOut, pipePc,
    \* run_conversion: arguments and environment
    input_is_dir, mirror_structure, pptx_files, lo_installed, cpu_count,
    progress_callback,
    \* run_conversion: locals and effects
    schedPc, output_base_created, max_workers, tasks,
    success_count, failed, completed, callbacks,
    \* the process pool and its futures
    fut, pool_broken, victim, finished_early, done_queue,
    \* history: completion order of the futures, order the loop took them
    completion_order, processed

segVars == <<full_md, slide_count, segResult, segPc>>
asmVars == <<asmArgs, md_content, asmPc>>
pipeVars == <<pipeEnv, pipeMd, pipeOut, pipePc>>
schedIn == <<input_is_dir, mirror_structure, pptx_files, lo_installed, cpu_count,
             progress_callback>>
schedLocals == <<output_base_created, max_workers, tasks>>
schedAgg == <<success_count, failed, completed, callbacks, processed>>
poolVars == <<fut, pool_broken, victim, finished_early, done_queue, completion_order>>
schedVars == <<schedIn, schedPc, schedLocals, schedAgg, poolVars>>
vars == <<segVars, asmVars, pipeVars, schedVars>>

None == "None"
NoneText == << "None" >>
NoneRecord == [none |-> TRUE]

Max(a, b) == IF a >= b THEN a ELSE b
Min(a, b) == IF a <= b THEN a ELSE b

(***************************************************************************)
(* Python string primitives.                                               *)
(***************************************************************************)
\* str.isspace / regex \s, restricted to the whitespace the model uses
Whitespace == {" ", "\n", "\t"}

RECURSIVE lstrip(_)
lstrip(s) ==
    IF s # << >> /\ Head(s) \in Whitespace THEN lstrip(Tail(s)) ELSE s

RECURSIVE rstrip(_)
rstrip(s) ==
    IF s # << >> /\ s[Len(s)] \in Whitespace
    THEN rstrip(SubSeq(s, 1, Len(s) - 1))
    ELSE s

\* str.strip()
strip(s) == rstrip(lstrip(s))

\* [x] * n  (the empty list when n <= 0)
Repeat(x, n) == [i \in 1..n |-> x]

\* mutant: the pattern written #{2,6}\s
HeadingAt_TwoHashes(s, i) ==
    \E k \in 2..6 :
        /\ i + k <= Len(s)
        /\ \A j \in i..(i + k - 1) : s[j] = "#"
        /\ s[i + k] \in Whitespace

\* the pattern  #{1,6}\s  matches s at index i
HeadingAt(s, i) ==
    \E k \in 1..6 :
        /\ i + k <= Len(s)
        /\ \A j \in i..(i + k - 1) : s[j] = "#"
        /\ s[i + k] \in Whitespace

\* re.match(r"^#{1,6}\s", s)
StartsWithHeading(s) == HeadingAt(s, 1)

\* re.split(r"\n(?=#{1,6}\s)", s): the newline is consumed, the heading kept
RECURSIVE ReSplitFrom(_, _, _)
ReSplitFrom(s, start, i) ==
    IF i > Len(s) THEN << SubSeq(s, start, Len(s)) >>
    ELSE IF s[i] = "\n" /\ HeadingAt(s, i + 1)
         THEN << SubSeq(s, start, i - 1) >> \o ReSplitFrom(s, i + 1, i + 1)
         ELSE ReSplitFrom(s, start, i + 1)

SplitAtHeadings(s) == ReSplitFrom(s, 1, 1)

(***************************************************************************)
(* split_markdown_by_slides (src/src/markdown_builder.py)                  *)
(***************************************************************************)
\* lines 12-13: empty blob or non-positive count
EmptyOrNoSlides(md, n) ==
    IF n # 0 THEN Repeat(<< >>, Max(1, n)) ELSE << >>

\* lines 26-34: leading body text, no more parts than slides
IntroCase(parts, n) ==
    [i \in 1..n |->
        IF i = 1 THEN (IF parts # << >> THEN parts[1] ELSE << >>)
        ELSE IF i <= Len(parts) THEN strip(parts[i])
        ELSE << >>]

\* mutant: the padding loop left out
PadCase_NoPadding(parts, n) ==
    [i \in 1..Len(parts) |-> strip(parts[i])]

\* lines 45-48: fewer parts than slides, pad with ""
PadCase(parts, n) ==
    [i \in 1..Max(n, Len(parts)) |->
        IF i <= Len(parts) THEN strip(parts[i]) ELSE << >>]

\* lines 42-43: at least as many parts as slides, keep the first n
TruncateCase(parts, n) ==
    [i \in 1..n |-> strip(parts[i])]

\* lines 41-48
HeaderLedCase(parts, n) ==
    IF Len(parts) >= n THEN TruncateCase(parts, n) ELSE PadCase(parts, n)

split_markdown_by_slides(md, n) ==
    IF md = << >> \/ n <= 0 THEN EmptyOrNoSlides(md, n)
    ELSE LET stripped == strip(md) IN
         IF stripped = << >> THEN Repeat(<< >>, n)
         ELSE LET parts == SplitAtHeadings(stripped) IN
              IF parts # << >> /\ ~StartsWithHeading(strip(parts[1]))
                 /\ Len(parts) <= n
              THEN IntroCase(parts, n)
              ELSE HeaderLedCase(parts, n)

(***************************************************************************)
(* Inputs of the segmenter runs.                                           *)
(***************************************************************************)
MaxBlobTokens == 5
MaxSlides == 3

BlobTokens == { <<"a">>, <<" ">>, <<"\n">>, <<"#">>, <<"\n", "#", " ">> }

RECURSIVE BlobsOf(_)
BlobsOf(k) ==
    IF k = 0 THEN { << >> }
    ELSE LET prev == BlobsOf(k - 1) IN
         prev \cup { b \o t : b \in prev, t \in BlobTokens }

\* "Intro text\n# Slide One\nbody1\n# Slide Two\nbody2"
Scenario3Blob ==
    <<"I","n","t","r","o"," ","t","e","x","t","\n",
      "#"," ","S","l","i","d","e"," ","O","n","e","\n",
      "b","o","d","y","1","\n",
      "#"," ","S","l","i","d","e"," ","T","w","o","\n",
      "b","o","d","y","2">>

Blobs == BlobsOf(MaxBlobTokens) \cup { Scenario3Blob }

(***************************************************************************)
(* build_markdown (src/src/markdown_builder.py)                            *)
(***************************************************************************)
\* str.replace(c, r) for a one-character c
RECURSIVE Replace(_, _, _)
Replace(s, c, r) ==
    IF s = << >> THEN << >>
    ELSE (IF Head(s) = c THEN r ELSE << Head(s) >>) \o Replace(Tail(s), c, r)

\* "\n".join(lines)
RECURSIVE JoinLines(_)
JoinLines(lines) ==
    IF lines = << >> THEN << >>
    ELSE IF Len(lines) = 1 THEN lines[1]
    ELSE lines[1] \o <<"\n">> \o JoinLines(Tail(lines))

DigitChars == <<"0", "1", "2", "3", "4", "5", "6", "7", "8", "9">>

\* str(n) for n >= 0
RECURSIVE IntToStr(_)
IntToStr(n) ==
    IF n < 10 THEN << DigitChars[n + 1] >>
    ELSE IntToStr(n \div 10) \o << DigitChars[(n % 10) + 1] >>

\* line 64: pdf_ref = f"{pdf_basename}.pdf"
PdfRef(pdf_basename) == pdf_basename \o <<".", "p", "d", "f">>

\* mutant: pages numbered from 0 (enumerate without start=1)
EmbedLine_ZeroBased(pdf_ref, n) ==
    <<"!", "[", "[">> \o pdf_ref \o <<"#", "p", "a", "g", "e", "=">>
        \o IntToStr(n - 1) \o <<"]", "]">>

\* line 96: f"![[{pdf_ref}#page={n}]]"
EmbedLine(pdf_ref, n) ==
    <<"!", "[", "[">> \o pdf_ref \o <<"#", "p", "a", "g", "e", "=">>
        \o IntToStr(n) \o <<"]", "]">>

\* line 81: escape backslash and quote, collapse newlines
EscapeNote(n) ==
    Replace(Replace(Replace(n, "\\", <<"\\", "\\">>), "\"", <<"\\", "\"">>),
            "\n", <<" ">>)

\* line 84: escape backslash and quote
EscapeTitle(v) ==
    Replace(Replace(v, "\\", <<"\\", "\\">>), "\"", <<"\\", "\"">>)

\* lines 68-89: the front-matter block
FrontMatter(speaker_notes, title) ==
    LET notes_for_yaml == SelectSeq(speaker_notes, LAMBDA n : n # << >>)
        hasTitle == title # NoneText /\ title # << >>
        titleLines ==
            IF hasTitle
            THEN << <<"t", "i", "t", "l", "e", ":", " ", "\"">>
                    \o EscapeTitle(title) \o <<"\"">> >>
            ELSE << >>
        noteLines ==
            IF notes_for_yaml # << >>
            THEN << <<"s","p","e","a","k","e","r","_","n","o","t","e","s",":">> >>
                 \o [i \in 1..Len(notes_for_yaml) |->
                        <<" ", " ", "-", " ", "\"">>
                        \o EscapeNote(notes_for_yaml[i]) \o <<"\"">>]
            ELSE << >>
    IN  IF hasTitle \/ notes_for_yaml # << >>
        THEN << <<"-", "-", "-">> >> \o titleLines \o noteLines
             \o << <<"-", "-", "-">>, << >> >>
        ELSE << >>

\* lines 92-93: one section per slide (slide_count >= 0)
NormalizeSections(body_sections, n) ==
    LET padded == IF Len(body_sections) >= n THEN body_sections
                  ELSE body_sections \o Repeat(<< >>, n - Len(body_sections))
    IN  SubSeq(padded, 1, n)

\* lines 96-101: the lines of slide n
SlideLines(pdf_ref, n, section_text) ==
    << EmbedLine(pdf_ref, n), << >> >>
    \o (IF section_text # << >> THEN << strip(section_text), << >> >> ELSE << >>)
    \o << << >> >>

\* lines 95-101
RECURSIVE BodyLines(_, _, _)
BodyLines(pdf_ref, sections, n) ==
    IF n > Len(sections) THEN << >>
    ELSE SlideLines(pdf_ref, n, sections[n]) \o BodyLines(pdf_ref, sections, n + 1)

build_markdown(pdf_basename, n, speaker_notes, body_sections, title) ==
    LET pdf_ref == PdfRef(pdf_basename)
        sections == NormalizeSections(body_sections, n)
        lines == FrontMatter(speaker_notes, title) \o BodyLines(pdf_ref, sections, 1)
    IN  strip(JoinLines(lines)) \o <<"\n">>

(***************************************************************************)
(* Reading the embed references back out of a text: every occurrence of    *)
(* ![[<pdf_ref>#page=<digits>]], left to right, as its page number.        *)
(***************************************************************************)
StartsWithAt(s, i, p) ==
    /\ i + Len(p) - 1 <= Len(s)
    /\ SubSeq(s, i, i + Len(p) - 1) = p

IsDigit(c) == \E d \in 1..10 : DigitChars[d] = c
DigitVal(c) == (CHOOSE d \in 1..10 : DigitChars[d] = c) - 1

RECURSIVE DigitsEnd(_, _)
DigitsEnd(s, i) ==
    IF i <= Len(s) /\ IsDigit(s[i]) THEN DigitsEnd(s, i + 1) ELSE i

RECURSIVE ParseNat(_, _, _, _)
ParseNat(s, i, e, acc) ==
    IF i >= e THEN acc ELSE ParseNat(s, i + 1, e, 10 * acc + DigitVal(s[i]))

RECURSIVE EmbedPagesFrom(_, _, _)
EmbedPagesFrom(s, i, pdf_ref) ==
    LET prefix == <<"!", "[", "[">> \o pdf_ref \o <<"#", "p", "a", "g", "e", "=">>
        d == i + Len(prefix)
        e == DigitsEnd(s, d)
    IN  IF i > Len(s) THEN << >>
        ELSE IF StartsWithAt(s, i, prefix) /\ e > d /\ StartsWithAt(s, e, <<"]", "]">>)
             THEN << ParseNat(s, d, e, 0) >> \o EmbedPagesFrom(s, e + 2, pdf_ref)
             ELSE EmbedPagesFrom(s, i + 1, pdf_ref)

EmbedPages(s, pdf_ref) == EmbedPagesFrom(s, 1, pdf_ref)

(***************************************************************************)
(* Inputs of the assembler runs.                                           *)
(***************************************************************************)
MaxSections == 3
MaxNotes == 1

AsmBasename == <<"d">>
\* "![[d.pdf#page=2]]": a text that is itself an embed reference
EmbedLikeText == EmbedLine(PdfRef(AsmBasename), 2)

SectionTexts == { << >>, <<" ", "s", "\n">>, EmbedLikeText }
NoteTexts == { << >>, <<"n", "\"", "\\", "\n", "m">>, EmbedLikeText }
Titles == { NoneText, <<"t">>, EmbedLikeText }

SeqsUpTo(S, k) == UNION { [1..m -> S] : m \in 0..k }

(***************************************************************************)
(* convert_one (src/src/converter.py) and convert_one_worker               *)
(* (src/src/worker.py).  A file is [parent, stem, suffix]; env gives what  *)
(* each collaborator does for this file:                                   *)
(*   resolve  "ok" | "raise"              Path(...).resolve()              *)
(*   ctor     "ok" | "raise"              MarkItDown()                     *)
(*   render   "pdf" | "none" | "raise"    convert_pptx_to_pdf              *)
(*   stamp    "stamped" | "noop"          set_pdf_metadata                 *)
(*   slides, pages   integers >= 0        get_slide_count, page count      *)
(*   notes    list of strings             get_speaker_notes                *)
(*   extract  "text" | "none" | "raise"   markitdown convert, text_content *)
(*   text     string                      the extracted text               *)
(*   write    "ok" | "raise"              md_path.write_text               *)
(* An outcome is [raised, exc, result, steps, files, N, md]: whether the   *)
(* call raised and with what, the returned record, the collaborator calls  *)
(* made in order, the files written, the unit count and the text written.  *)
(***************************************************************************)
ResultRecord(success, path, error) ==
    [success |-> success, path |-> path, error |-> error]

Raised(exc, steps) ==
    [raised |-> TRUE, exc |-> exc, result |-> NoneRecord, steps |-> steps,
     files |-> {}, N |-> 0, md |-> NoneText,
     stamped |-> FALSE, notes |-> << >>, body |-> NoneText, sections |-> << >>]

Returned(result, steps, files, n, md) ==
    [raised |-> FALSE, exc |-> None, result |-> result, steps |-> steps,
     files |-> files, N |-> n, md |-> md,
     stamped |-> FALSE, notes |-> << >>, body |-> NoneText, sections |-> << >>]

\* what the steps after the render left behind: whether the document carries
\* the metadata, and the values handed from step to step
WithStamp(out, stamped) == [out EXCEPT !.stamped = stamped]

WithWork(out, notes, body, sections) ==
    [out EXCEPT !.notes = notes, !.body = body, !.sections = sections]

\* libreoffice.py lines 91-97 and converter.py line 71: the output files
PdfPath(output_dir, stem) == <<output_dir, stem, ".pdf">>
MdPath(output_dir, stem) == <<output_dir, stem, ".md">>

\* mutant: a render that returned no document is not noticed
RenderFailed_Never(rendered) == FALSE

\* converter.py line 36: convert_pptx_to_pdf returned None
RenderFailed(rendered) == rendered = "none"

\* pdf_metadata.py lines 9-46: TRUE when the metadata was written, FALSE when
\* the call was a no-op (pymupdf missing, file missing, any exception)
set_pdf_metadata(env) == env.stamp = "stamped"

\* mutant: the fallback to the page count left out
ResolveSlideCount_NoFallback(slides, pages) == slides

\* converter.py lines 41-43: slide count, falling back to the page count
ResolveSlideCount(slides, pages) ==
    IF slides <= 0 THEN pages ELSE slides

\* converter.py lines 48-51: pad or truncate the notes to slide_count
NormalizeNotes(speaker_notes, n) ==
    LET padded == IF Len(speaker_notes) < n
                  THEN speaker_notes \o Repeat(<< >>, n - Len(speaker_notes))
                  ELSE speaker_notes
    IN  SubSeq(padded, 1, n)

\* mutant: the text is used whatever the extractor did
ExtractBody_KeepsText(env) == strip(env.text)

\* converter.py lines 54-58: the semantic body, "" on any failure
ExtractBody(env) ==
    IF env.extract = "raise" THEN << >>
    ELSE IF env.extract = "none" THEN strip(<< >>)
    ELSE strip(env.text)

\* converter.py lines 33-76: the body of the try block
ConvertOneTry(pptx_path, output_dir, env) ==
    LET stem == pptx_path.stem
        pdf == PdfPath(output_dir, stem)
        n == ResolveSlideCount(env.slides, env.pages)
        notes == NormalizeNotes(env.notes, n)
        body == ExtractBody(env)
        sections == split_markdown_by_slides(body, n)
        md == build_markdown(stem, n, notes, sections, stem)
        stamped == set_pdf_metadata(env)
    IN  IF env.render = "raise"
        THEN Returned(ResultRecord(FALSE, pptx_path, "render error"),
                      <<"render">>, {}, 0, NoneText)
        ELSE IF RenderFailed(env.render)
        THEN Returned(ResultRecord(FALSE, pptx_path,
                                   "PDF conversion failed (LibreOffice)"),
                      <<"render">>, {}, 0, NoneText)
        ELSE IF n <= 0
        THEN WithStamp(
                 Returned(ResultRecord(FALSE, pptx_path,
                                       "No slides found or invalid file"),
                          <<"render", "stamp", "slide_count", "page_count">>,
                          {pdf}, n, NoneText),
                 stamped)
        ELSE LET counted == <<"render", "stamp", "slide_count">>
                            \o (IF env.slides <= 0 THEN <<"page_count">> ELSE << >>)
                 steps == counted \o <<"notes", "extract", "split", "build", "write">>
                 out == IF env.write = "raise"
                        THEN Returned(ResultRecord(FALSE, pptx_path, "write error"),
                                      steps, {pdf}, n, NoneText)
                        ELSE Returned(ResultRecord(TRUE, pptx_path, None),
                                      steps, {pdf, MdPath(output_dir, stem)}, n, md)
             IN  WithWork(WithStamp(out, stamped), notes, body, sections)

\* converter.py lines 17-76
convert_one(pptx_path, output_dir, markitdown_instance, env) ==
    IF env.resolve = "raise" THEN Raised("resolve error", << >>)
    ELSE IF markitdown_instance = None /\ env.ctor = "raise"
    THEN Raised("MarkItDown error", << >>)
    ELSE ConvertOneTry(pptx_path, output_dir, env)

\* worker.py lines 21-41; worker_markitdown is the process-global instance
convert_one_worker(pptx_path, output_dir, worker_markitdown, env) ==
    LET out == convert_one(pptx_path, output_dir, worker_markitdown, env)
    IN  IF out.raised
        THEN Returned(ResultRecord(FALSE, pptx_path, out.exc),
                      out.steps, out.files, out.N, out.md)
        ELSE out

(***************************************************************************)
(* Inputs of the pipeline runs.                                            *)
(***************************************************************************)
MaxCount == 2

PipeFile == [parent |-> <<"in">>, stem |-> <<"d">>, suffix |-> ".pptx"]
PipeOutDir == <<"out">>

PipeEnvs ==
    [resolve : {"ok", "raise"},
     ctor : {"ok", "raise"},
     render : {"pdf", "none", "raise"},
     stamp : {"stamped", "noop"},
     slides : 0..MaxCount,
     pages : 0..MaxCount,
     notes : { << >>, << <<"n">> >>, << << >>, <<"n">>, <<"m">> >> },
     extract : {"text", "none", "raise"},
     text : { <<" ">>, <<"a", "\n", "#", " ", "b">> },
     write : {"ok", "raise"}]

(***************************************************************************)
(* run_conversion (src/main.py).  Paths are sequences of components; the   *)
(* input root is InputRoot, the resolved output base OutputBase.           *)
(***************************************************************************)
InputRoot == <<"in">>
OutputBase == <<"out">>

IsPrefix(p, q) == Len(p) <= Len(q) /\ SubSeq(q, 1, Len(p)) = p

\* lines 68-73: out_dir_for, with the ValueError fallback of relative_to
out_dir_for(p) ==
    IF IsPrefix(InputRoot, p.parent)
    THEN OutputBase \o SubSeq(p.parent, Len(InputRoot) + 1, Len(p.parent))
    ELSE OutputBase

\* lines 67-76: the (path, output directory) of one file
TaskFor(p, mirror, is_dir) ==
    IF mirror /\ is_dir
    THEN [path |-> p, out |-> out_dir_for(p)]
    ELSE [path |-> p, out |-> OutputBase]

\* mutant: the cap at the number of files left out
MaxWorkers_NoFileCap(cpus, nfiles) ==
    Max(1, (IF cpus = 0 THEN 2 ELSE cpus) - 1)

\* lines 64-65: pool size; cpus is os.cpu_count(), 0 standing for None
\* (`or` takes 2 for either)
MaxWorkers(cpus, nfiles) ==
    Min(Max(1, (IF cpus = 0 THEN 2 ELSE cpus) - 1), nfiles)

\* mutant: the LibreOffice check left out
Precheck_NoCheck(files, lo_ok) ==
    IF files = << >> THEN "return_empty" ELSE "plan"

\* lines 55-60: what the checks before any work decide
Precheck(files, lo_ok) ==
    IF files = << >> THEN "return_empty"
    ELSE IF ~lo_ok THEN "raise"
    ELSE "plan"

\* a future: state, the returned outcome, the exception raised by result()
NewFuture == [state |-> "unsubmitted", outcome |-> NoneRecord, exception |-> None]

TaskIds == 1..Len(tasks)
InState(st) == { t \in TaskIds : fut[t].state = st }
Crashed(t) == fut[t].state = "finished" /\ fut[t].exception # None

\* lines 90-91: the success counter after one future
CountSuccess(count, f) ==
    IF f.exception = None /\ f.outcome.result.success THEN count + 1 ELSE count

\* mutant: a crashed future is swallowed (except: pass)
RecordFailure_DropsCrash(failed_list, path, f) ==
    IF f.exception # None THEN failed_list
    ELSE IF f.outcome.result.success THEN failed_list
    ELSE Append(failed_list, <<f.outcome.result.path, f.outcome.result.error>>)

\* lines 92-95: the failed list after one future
RecordFailure(failed_list, path, f) ==
    IF f.exception # None THEN Append(failed_list, <<path, f.exception>>)
    ELSE IF f.outcome.result.success THEN failed_list
    ELSE Append(failed_list, <<f.outcome.result.path, f.outcome.result.error>>)

\* lines 87-89, 98: the result handed to the callback, None after a crash
CallbackResult(f) ==
    IF f.exception # None THEN NoneRecord ELSE f.outcome.result

\* mutant: the callback is skipped when there is no result record
NotifyProgress_OnlyWithResult(cbs, callback, current, total, result) ==
    IF callback # None /\ result # NoneRecord
    THEN Append(cbs, <<current, total, result>>)
    ELSE cbs

\* lines 97-98
NotifyProgress(cbs, callback, current, total, result) ==
    IF callback # None THEN Append(cbs, <<current, total, result>>) ELSE cbs

(***************************************************************************)
(* Inputs of the batch runs.  The discovered files are resolved and        *)
(* sorted; a file outside the input root is a symlink's target.            *)
(***************************************************************************)
MaxFiles == 3
MaxCpu == 3

FileUniverse ==
    << [parent |-> <<"ext">>, stem |-> <<"x">>, suffix |-> ".pptx"],
       [parent |-> <<"in", "a">>, stem |-> <<"x">>, suffix |-> ".pptx"],
       [parent |-> <<"in">>, stem |-> <<"x">>, suffix |-> ".ppt"],
       [parent |-> <<"in">>, stem |-> <<"x">>, suffix |-> ".pptx"] >>

\* the sorted list of the files whose indices are in S
RECURSIVE SortedFiles(_, _)
SortedFiles(S, i) ==
    IF i > Len(FileUniverse) THEN << >>
    ELSE (IF i \in S THEN << FileUniverse[i] >> ELSE << >>) \o SortedFiles(S, i + 1)

Discoveries ==
    { SortedFiles(S, 1) : S \in { X \in SUBSET (1..Len(FileUniverse)) :
                                    Cardinality(X) <= MaxFiles } }

EnvBase ==
    [resolve |-> "ok", ctor |-> "ok", render |-> "pdf", stamp |-> "stamped",
     slides |-> 1, pages |-> 1, notes |-> << >>, extract |-> "none",
     text |-> << >>, write |-> "ok"]

\* what the collaborators may do for a task of a batch
SchedEnvs == { EnvBase, [EnvBase EXCEPT !.render = "none"] }

SegIdle ==
    /\ full_md = << >> /\ slide_count = 0 /\ segResult = None /\ segPc = "idle"

AsmIdle ==
    /\ asmArgs = None /\ md_content = NoneText /\ asmPc = "idle"

PipeIdle ==
    /\ pipeEnv = None /\ pipeMd = None /\ pipeOut = NoneRecord /\ pipePc = "idle"

SchedIdle ==
    /\ input_is_dir = FALSE /\ mirror_structure = FALSE /\ pptx_files = << >>
    /\ lo_installed = FALSE /\ cpu_count = 0 /\ progress_callback = None
    /\ schedPc = "idle" /\ output_base_created = FALSE /\ max_workers = 0
    /\ tasks = << >> /\ success_count = 0 /\ failed = << >> /\ completed = 0
    /\ callbacks = << >> /\ processed = << >> /\ fut = << >>
    /\ pool_broken = FALSE /\ victim = 0 /\ finished_early = {}
    /\ done_queue = << >> /\ completion_order = << >>

SegInit ==
    /\ AsmIdle /\ PipeIdle /\ SchedIdle
    /\ full_md \in Blobs
    /\ slide_count \in (-1)..MaxSlides
    /\ segResult = None
    /\ segPc = "call"

Segment ==
    /\ segPc = "call"
    /\ segResult' = split_markdown_by_slides(full_md, slide_count)
    /\ segPc' = "returned"
    /\ UNCHANGED <<full_md, slide_count, asmVars, pipeVars, schedVars>>

SegNext == Segment

SpecSeg == SegInit /\ [][SegNext]_vars

AsmInit ==
    /\ SegIdle /\ PipeIdle /\ SchedIdle
    /\ asmArgs \in [pdf_basename : {AsmBasename},
                    slide_count : 0..MaxSlides,
                    speaker_notes : SeqsUpTo(NoteTexts, MaxNotes),
                    body_sections : SeqsUpTo(SectionTexts, MaxSections),
                    title : Titles]
    /\ md_content = NoneText
    /\ asmPc = "call"

Build ==
    /\ asmPc = "call"
    /\ md_content' = build_markdown(asmArgs.pdf_basename, asmArgs.slide_count,
                                    asmArgs.speaker_notes, asmArgs.body_sections,
                                    asmArgs.title)
    /\ asmPc' = "returned"
    /\ UNCHANGED <<asmArgs, segVars, pipeVars, schedVars>>

AsmNext == Build

SpecAsm == AsmInit /\ [][AsmNext]_vars

PipeInit ==
    /\ SegIdle /\ AsmIdle /\ SchedIdle
    /\ pipeEnv \in PipeEnvs
    /\ pipeMd \in {None, "MarkItDown"}
    /\ pipeOut = NoneRecord
    /\ pipePc = "call"

\* a direct call of convert_one(PipeFile, PipeOutDir, pipeMd)
CallConvertOne ==
    /\ pipePc = "call"
    /\ pipeOut' = convert_one(PipeFile, PipeOutDir, pipeMd, pipeEnv)
    /\ pipePc' = "convert_one"
    /\ UNCHANGED <<pipeEnv, pipeMd, segVars, asmVars, schedVars>>

\* a task of the pool: convert_one_worker(PipeFile, PipeOutDir), the
\* process-global instance being pipeMd
CallWorker ==
    /\ pipePc = "call"
    /\ pipeOut' = convert_one_worker(PipeFile, PipeOutDir, pipeMd, pipeEnv)
    /\ pipePc' = "convert_one_worker"
    /\ UNCHANGED <<pipeEnv, pipeMd, segVars, asmVars, schedVars>>

PipeNext == CallConvertOne \/ CallWorker

SpecPipe == PipeInit /\ [][PipeNext]_vars

(***************************************************************************)
(* run_conversion as a state machine: the caller's thread (schedPc) and    *)
(* the worker processes of the pool.                                       *)
(***************************************************************************)
Init ==
    /\ SegIdle /\ AsmIdle /\ PipeIdle
    /\ input_is_dir \in BOOLEAN
    /\ pptx_files \in (IF input_is_dir THEN Discoveries ELSE { << FileUniverse[4] >> })
    /\ mirror_structure \in BOOLEAN
    /\ lo_installed \in BOOLEAN
    /\ cpu_count \in 0..MaxCpu
    /\ progress_callback \in {None, "on_progress"}
    /\ schedPc = "start"
    /\ output_base_created = FALSE /\ max_workers = 0 /\ tasks = << >>
    /\ success_count = 0 /\ failed = << >> /\ completed = 0
    /\ callbacks = << >> /\ processed = << >>
    /\ fut = << >> /\ pool_broken = FALSE /\ victim = 0
    /\ finished_early = {} /\ done_queue = << >> /\ completion_order = << >>

\* the ids of S in ascending order
RECURSIVE Ascending(_)
Ascending(S) ==
    IF S = {} THEN << >>
    ELSE LET m == CHOOSE x \in S : \A y \in S : x <= y
         IN  << m >> \o Ascending(S \ {m})

\* the futures in `done` have completed: as_completed yields those that
\* completed before it was called first, the others in completion order
Completes(done) ==
    /\ completion_order' = completion_order \o done
    /\ IF schedPc = "submit"
       THEN /\ finished_early' = finished_early \cup { done[i] : i \in 1..Len(done) }
            /\ UNCHANGED done_queue
       ELSE /\ done_queue' = done_queue \o done
            /\ UNCHANGED finished_early

\* lines 54-56: no input file
ReturnEmpty ==
    /\ schedPc = "start"
    /\ Precheck(pptx_files, lo_installed) = "return_empty"
    /\ schedPc' = "returned"
    /\ UNCHANGED <<schedIn, schedLocals, schedAgg, poolVars, segVars, asmVars, pipeVars>>

\* lines 58-60: RuntimeError, LibreOffice was not found
RaiseNoLibreOffice ==
    /\ schedPc = "start"
    /\ Precheck(pptx_files, lo_installed) = "raise"
    /\ schedPc' = "raised"
    /\ UNCHANGED <<schedIn, schedLocals, schedAgg, poolVars, segVars, asmVars, pipeVars>>

\* lines 62-83: output base, pool size, tasks, counters, the pool
Plan ==
    /\ schedPc = "start"
    /\ Precheck(pptx_files, lo_installed) = "plan"
    /\ output_base_created' = TRUE
    /\ max_workers' = MaxWorkers(cpu_count, Len(pptx_files))
    /\ tasks' = [i \in 1..Len(pptx_files) |->
                    TaskFor(pptx_files[i], mirror_structure, input_is_dir)]
    /\ fut' = [i \in 1..Len(pptx_files) |-> NewFuture]
    /\ schedPc' = "submit"
    /\ UNCHANGED <<schedIn, schedAgg, pool_broken, victim, finished_early,
                   done_queue, completion_order, segVars, asmVars, pipeVars>>

\* line 84: executor.submit of the next task
SubmitTask ==
    /\ schedPc = "submit"
    /\ InState("unsubmitted") # {}
    /\ ~pool_broken
    /\ LET t == CHOOSE x \in InState("unsubmitted") :
                    \A y \in InState("unsubmitted") : x <= y
       IN  fut' = [fut EXCEPT ![t].state = "pending"]
    /\ UNCHANGED <<schedIn, schedPc, schedLocals, schedAgg, pool_broken, victim,
                   finished_early, done_queue, completion_order,
                   segVars, asmVars, pipeVars>>

\* line 84: executor.submit on a broken pool raises BrokenProcessPool,
\* which leaves run_conversion
SubmitToBrokenPool ==
    /\ schedPc = "submit"
    /\ InState("unsubmitted") # {}
    /\ pool_broken
    /\ schedPc' = "raised"
    /\ UNCHANGED <<schedIn, schedLocals, schedAgg, poolVars, segVars, asmVars, pipeVars>>

\* line 85: as_completed(futures) is entered
StartCollect ==
    /\ schedPc = "submit"
    /\ InState("unsubmitted") = {}
    /\ schedPc' = "collect"
    /\ UNCHANGED <<schedIn, schedLocals, schedAgg, poolVars, segVars, asmVars, pipeVars>>

\* a free worker process takes the oldest pending task
WorkerStart ==
    /\ schedPc \in {"submit", "collect"}
    /\ ~pool_broken
    /\ InState("pending") # {}
    /\ Cardinality(InState("running")) < max_workers
    /\ LET t == CHOOSE x \in InState("pending") : \A y \in InState("pending") : x <= y
       IN  fut' = [fut EXCEPT ![t].state = "running"]
    /\ UNCHANGED <<schedIn, schedPc, schedLocals, schedAgg, pool_broken, victim,
                   finished_early, done_queue, completion_order,
                   segVars, asmVars, pipeVars>>

\* convert_one_worker returns in a worker process (its globals were set by
\* _init_worker)
WorkerFinish(t, env) ==
    /\ schedPc \in {"submit", "collect"}
    /\ t \in InState("running")
    /\ fut' = [fut EXCEPT ![t] =
                  [state |-> "finished",
                   outcome |-> convert_one_worker(tasks[t].path, tasks[t].out,
                                                  "MarkItDown", env),
                   exception |-> None]]
    /\ Completes(<< t >>)
    /\ UNCHANGED <<schedIn, schedPc, schedLocals, schedAgg, pool_broken, victim,
                   segVars, asmVars, pipeVars>>

\* a worker process dies while running task v, or (v = 0) _init_worker
\* raises in a starting process: the pool is broken and every future not
\* yet finished raises BrokenProcessPool
PoolBreaks(v) ==
    /\ schedPc \in {"submit", "collect"}
    /\ ~pool_broken
    /\ InState("pending") \cup InState("running") # {}
    /\ v \in InState("running") \cup {0}
    /\ pool_broken' = TRUE
    /\ victim' = v
    /\ LET lost == InState("pending") \cup InState("running") IN
       /\ fut' = [t \in TaskIds |->
                    IF t \in lost
                    THEN [state |-> "finished", outcome |-> NoneRecord,
                          exception |-> "BrokenProcessPool"]
                    ELSE fut[t]]
       /\ Completes(Ascending(lost))
    /\ UNCHANGED <<schedIn, schedPc, schedLocals, schedAgg, segVars, asmVars, pipeVars>>

\* lines 85-98: one iteration of the loop, for the future t it is given
CollectFuture(t) ==
    /\ success_count' = CountSuccess(success_count, fut[t])
    /\ failed' = RecordFailure(failed, tasks[t].path, fut[t])
    /\ completed' = completed + 1
    /\ callbacks' = NotifyProgress(callbacks, progress_callback, completed + 1,
                                   Len(tasks), CallbackResult(fut[t]))
    /\ processed' = Append(processed, t)
    /\ UNCHANGED <<schedIn, schedPc, schedLocals, fut, pool_broken, victim,
                   completion_order, segVars, asmVars, pipeVars>>

Yielded == { processed[i] : i \in 1..Len(processed) }

\* a future that had completed before as_completed was entered
CollectEarly ==
    /\ schedPc = "collect"
    /\ \E t \in finished_early \ Yielded :
        /\ UNCHANGED <<finished_early, done_queue>>
        /\ CollectFuture(t)

\* the next future in completion order
CollectNext ==
    /\ schedPc = "collect"
    /\ finished_early \subseteq Yielded
    /\ done_queue # << >>
    /\ done_queue' = Tail(done_queue)
    /\ UNCHANGED finished_early
    /\ CollectFuture(Head(done_queue))

\* line 99: every future was yielded; the pool is shut down
Return ==
    /\ schedPc = "collect"
    /\ Len(processed) = Len(tasks)
    /\ schedPc' = "returned"
    /\ UNCHANGED <<schedIn, schedLocals, schedAgg, poolVars, segVars, asmVars, pipeVars>>

Next ==
    \/ ReturnEmpty
    \/ RaiseNoLibreOffice
    \/ Plan
    \/ SubmitTask
    \/ SubmitToBrokenPool
    \/ StartCollect
    \/ WorkerStart
    \/ \E t \in TaskIds, env \in SchedEnvs : WorkerFinish(t, env)
    \/ \E v \in TaskIds \cup {0} : PoolBreaks(v)
    \/ CollectEarly
    \/ CollectNext
    \/ Return

Spec == Init /\ [][Next]_vars

(***************************************************************************)
(* Claims about run_conversion (checked under Spec).                       *)
(***************************************************************************)
Succeeded(t) == fut[t].exception = None /\ fut[t].outcome.result.success

ErrorOf(t) ==
    IF fut[t].exception # None THEN fut[t].exception
    ELSE fut[t].outcome.result.error

FailedEntriesFor(t) == { i \in 1..Len(failed) : failed[i][1] = tasks[t].path }

OutputFiles(t) ==
    { PdfPath(tasks[t].out, tasks[t].path.stem),
      MdPath(tasks[t].out, tasks[t].path.stem) }

\* os.cpu_count() or 2
AvailableParallelism == IF cpu_count = 0 THEN 2 ELSE cpu_count

\* C2: a crash of one task (a worker process dying included) is contained:
\* only the future of the task whose worker died raises, every other
\* submitted file gets its own genuine result, and the batch is not aborted.
C2_CrashIsContained ==
    /\ victim # 0 => \A t \in TaskIds : Crashed(t) => t = victim
    /\ pool_broken => schedPc # "raised"

\* C3: no two distinct input files are mapped to the same output file
\* path, so no two concurrently running tasks write the same file.
C3_OutputsDistinct ==
    \A i \in TaskIds, j \in TaskIds :
        i # j => OutputFiles(i) \cap OutputFiles(j) = {}

\* C4: when run_conversion returns for T files, successCount +
\* len(failedList) = T; every file whose task returned success is counted
\* once, every file whose task failed or crashed appears exactly once in
\* failedList with its error.
C4_CountsAddUp ==
    schedPc = "returned" =>
        /\ success_count + Len(failed) = Len(tasks)
        /\ success_count = Cardinality({ t \in TaskIds : Succeeded(t) })
        /\ \A t \in TaskIds :
            IF Succeeded(t) THEN FailedEntriesFor(t) = {}
            ELSE /\ Cardinality(FailedEntriesFor(t)) = 1
                 /\ \A i \in FailedEntriesFor(t) : failed[i][2] = ErrorOf(t)

\* C4 witness: Scenario 2, three files, the renderer fails for the second.
C4_Witness ==
    /\ schedPc = "returned" /\ Len(tasks) = 3 /\ ~pool_broken
    /\ success_count = 2
    /\ failed = << <<tasks[2].path, "PDF conversion failed (LibreOffice)">> >>

\* C5 (amended): with a progress callback, the callback is invoked exactly
\* once per future the loop is given, with (completedCount, T, result):
\* completedCount is 1, 2, ..., T in that order, result is the record the
\* task returned, or None when the task crashed; the futures that had
\* completed before collection began come first, the others follow in
\* completion order.
C5_CallbackPerCompletion ==
    progress_callback # None =>
        /\ Len(callbacks) = completed
        /\ Len(processed) = completed
        /\ \A i \in 1..Len(processed), j \in 1..Len(processed) :
                i # j => processed[i] # processed[j]
        /\ \A i \in 1..Len(callbacks) :
                callbacks[i] =
                    <<i, Len(tasks),
                      IF Crashed(processed[i]) THEN NoneRecord
                      ELSE fut[processed[i]].outcome.result>>
        /\ \A i \in 1..Len(processed), j \in 1..Len(processed) :
                (i < j /\ processed[j] \in finished_early)
                    => processed[i] \in finished_early
        /\ LET late(t) == t \notin finished_early
               got == SelectSeq(processed, late)
               due == SelectSeq(completion_order, late)
           IN  Len(got) <= Len(due) /\ got = SubSeq(due, 1, Len(got))
        /\ schedPc = "returned" => Len(callbacks) = Len(tasks)

\* C5 as stated: the i-th invocation is (i, T, the result record of the
\* i-th task to complete), for success, failure and crash alike.
C5_AsClaimed ==
    progress_callback # None =>
        \A i \in 1..Len(callbacks) :
            /\ callbacks[i][1] = i
            /\ callbacks[i][2] = Len(tasks)
            /\ fut[completion_order[i]].exception = None
            /\ callbacks[i][3] = fut[completion_order[i]].outcome.result

\* C5 witness: a returned batch of three with a callback: one task
\* succeeded, the others crashed and were reported with None.
C5_Witness ==
    /\ schedPc = "returned" /\ progress_callback # None
    /\ Len(callbacks) = 3
    /\ \E i \in 1..3 : callbacks[i][3] = NoneRecord
    /\ \E i \in 1..3 : callbacks[i][3] # NoneRecord /\ callbacks[i][3].success
    /\ callbacks[3][1] = 3

NothingStarted ==
    /\ ~output_base_created
    /\ tasks = << >> /\ fut = << >>
    /\ completed = 0 /\ success_count = 0 /\ failed = << >> /\ callbacks = << >>

\* C6 (amended): if the external renderer is not reachable and at least
\* one input file was found, run_conversion raises before any output
\* directory is created or any task is submitted; no file is processed.
C6_NoWorkWithoutRenderer ==
    (~lo_installed /\ pptx_files # << >>) =>
        /\ schedPc \in {"start", "raised"}
        /\ NothingStarted

\* C6 as stated: if the external renderer is not reachable, run_conversion
\* raises, whatever the input set.
C6_AsClaimed ==
    ~lo_installed =>
        /\ schedPc \in {"start", "raised"}
        /\ NothingStarted

\* C6 witness: three files found, the renderer unreachable, the error
\* raised with nothing started.
C6_Witness ==
    /\ ~lo_installed /\ Len(pptx_files) = 3
    /\ schedPc = "raised" /\ NothingStarted

\* C7 (amended): the number of workers is never more than
\* min(max(1, availableParallelism - 1), fileCount), availableParallelism
\* being 2 when unknown, and never fewer than 1; no more tasks run at once.
C7_WorkersBounded ==
    tasks # << >> =>
        /\ max_workers >= 1
        /\ max_workers <= Len(pptx_files)
        /\ max_workers <= Max(1, AvailableParallelism - 1)
        /\ Cardinality(InState("running")) <= max_workers

\* C7 as stated: the number of workers is never more than
\* min(availableParallelism - 1, fileCount) and never fewer than 1.
C7_AsClaimed ==
    tasks # << >> =>
        /\ max_workers >= 1
        /\ max_workers <= Min(AvailableParallelism - 1, Len(pptx_files))

\* C7 witness: three files on three processors: two workers, both busy.
C7_Witness ==
    /\ Len(tasks) = 3 /\ cpu_count = 3 /\ max_workers = 2
    /\ Cardinality(InState("running")) = 2

(***************************************************************************)
(* Claims about split_markdown_by_slides (checked under SpecSeg).          *)
(***************************************************************************)
SegParts == SplitAtHeadings(strip(full_md))

\* C8: for every blob and every N >= 1 the returned sequence has length
\* exactly N.
C8_LengthIsN ==
    (segPc = "returned" /\ slide_count >= 1) => Len(segResult) = slide_count

\* C8 witness: a returned call that had to pad (fewer heading-led parts than
\* N) with a heading-led first part.
C8_Witness ==
    /\ segPc = "returned" /\ slide_count = 3
    /\ strip(full_md) # << >>
    /\ StartsWithHeading(strip(SegParts[1]))
    /\ Len(SegParts) = 2
    /\ Len(segResult) = 3

Scenario3Kept ==
    << <<"I","n","t","r","o"," ","t","e","x","t">>,
       <<"#"," ","S","l","i","d","e"," ","O","n","e","\n","b","o","d","y","1">>,
       <<"#"," ","S","l","i","d","e"," ","T","w","o","\n","b","o","d","y","2">> >>

Scenario3Claimed ==
    << <<"I","n","t","r","o"," ","t","e","x","t">>,
       <<"S","l","i","d","e"," ","O","n","e","\n","b","o","d","y","1">>,
       <<"S","l","i","d","e"," ","T","w","o","\n","b","o","d","y","2">> >>

\* C9 (amended): for the Scenario 3 blob and N = 3 the result is
\* ["Intro text", "# Slide One\nbody1", "# Slide Two\nbody2"]: the leading
\* body text goes to unit 1, each heading-led part to the next unit, and the
\* heading markers are kept.
C9_Scenario3KeepsHeadings ==
    (segPc = "returned" /\ full_md = Scenario3Blob /\ slide_count = 3)
        => segResult = Scenario3Kept

\* C9 as stated: the result is ["Intro text", "Slide One\nbody1",
\* "Slide Two\nbody2"], with the heading markers removed.
C9_Scenario3AsClaimed ==
    (segPc = "returned" /\ full_md = Scenario3Blob /\ slide_count = 3)
        => segResult = Scenario3Claimed

\* C9 witness: the Scenario 3 call has returned.
C9_Witness ==
    /\ segPc = "returned" /\ full_md = Scenario3Blob /\ slide_count = 3
    /\ Len(segResult) = 3

\* C11: every string of the returned sequence has no leading and no
\* trailing whitespace, for every blob and N, with leading body text (Case A)
\* and heading-led (Case B).
C11_AllTrimmed ==
    segPc = "returned" =>
        \A i \in 1..Len(segResult) : strip(segResult[i]) = segResult[i]

\* C12: an empty blob and N >= 1 give N empty strings, and N <= 0 (zero and
\* every negative N) gives the empty sequence, whatever the blob.
C12_EmptyAndNonPositive ==
    segPc = "returned" =>
        /\ (full_md = << >> /\ slide_count >= 1)
               => segResult = Repeat(<< >>, slide_count)
        /\ slide_count <= 0 => segResult = << >>

(***************************************************************************)
(* Claims about build_markdown (checked under SpecAsm).                    *)
(***************************************************************************)
AsmPages == EmbedPages(md_content, PdfRef(asmArgs.pdf_basename))

ContainsEmbed(s) == EmbedPages(s, PdfRef(asmArgs.pdf_basename)) # << >>

\* no title, annotation or section text is itself an embed reference
InputsEmbedFree ==
    /\ asmArgs.title = NoneText \/ ~ContainsEmbed(asmArgs.title)
    /\ \A i \in 1..Len(asmArgs.speaker_notes) : ~ContainsEmbed(asmArgs.speaker_notes[i])
    /\ \A i \in 1..Len(asmArgs.body_sections) : ~ContainsEmbed(asmArgs.body_sections[i])

C1_NeverRaises ==
    pipePc = "convert_one" =>
        /\ ~pipeOut.raised
        /\ pipeOut.result.success \/ pipeOut.result.error # None

\* a call of convert_one, direct or through the worker, has returned
PipeReturned ==
    /\ pipePc \in {"convert_one", "convert_one_worker"}
    /\ ~pipeOut.raised

StepsRun == { pipeOut.steps[i] : i \in 1..Len(pipeOut.steps) }

\* the renderer was called and returned a document
Rendered == PipeReturned /\ "stamp" \in StepsRun

PipeMdPath == MdPath(PipeOutDir, PipeFile.stem)

\* C13: if the renderer returns no document, convert_one returns a failure
\* result with the rendering-failed reason at once, and no later step runs:
\* no stamping, no unit count, no annotations, no extraction, no
\* segmentation, no text document.
C13_RenderFailureStops ==
    (PipeReturned /\ "render" \in StepsRun /\ pipeEnv.render = "none") =>
        /\ ~pipeOut.result.success
        /\ pipeOut.result.error = "PDF conversion failed (LibreOffice)"
        /\ pipeOut.steps = <<"render">>
        /\ ~pipeOut.stamped
        /\ pipeOut.notes = << >> /\ pipeOut.body = NoneText
        /\ pipeOut.sections = << >> /\ pipeOut.md = NoneText
        /\ PipeMdPath \notin pipeOut.files

\* C13 witness: a direct call whose render returned no document, every later
\* collaborator being ready to work.
C13_Witness ==
    /\ pipePc = "convert_one" /\ ~pipeOut.raised
    /\ pipeEnv.render = "none" /\ pipeOut.steps = <<"render">>
    /\ pipeEnv.stamp = "stamped" /\ pipeEnv.slides = 2
    /\ pipeEnv.extract = "text" /\ pipeEnv.write = "ok"
    /\ ~pipeOut.result.success

\* the unit count C14 describes
ExpectedCount ==
    IF pipeEnv.slides > 0 THEN pipeEnv.slides ELSE pipeEnv.pages

\* C14: after a successful render N is the slide count when that is > 0,
\* otherwise the page count; if both are <= 0 the result is the failure
\* "No slides found or invalid file" and no text document is written; a
\* resolved N (>= 1) is the one used to normalize the annotations, to
\* segment and to assemble.
C14_UnitCountResolved ==
    Rendered =>
        /\ pipeOut.N = ExpectedCount
        /\ ("page_count" \in StepsRun) <=> (pipeEnv.slides <= 0)
        /\ ExpectedCount <= 0 =>
               /\ ~pipeOut.result.success
               /\ pipeOut.result.error = "No slides found or invalid file"
               /\ "write" \notin StepsRun
               /\ PipeMdPath \notin pipeOut.files
        /\ ExpectedCount >= 1 =>
               /\ Len(pipeOut.notes) = ExpectedCount
               /\ Len(pipeOut.sections) = ExpectedCount
               /\ pipeOut.result.success =>
                      EmbedPages(pipeOut.md, PdfRef(PipeFile.stem))
                          = [i \in 1..ExpectedCount |-> i]

\* C14 witness: the slide count is 0, the page count 2, and the run
\* succeeded with two annotations, two sections and two embeds.
C14_Witness ==
    /\ Rendered /\ pipeEnv.slides = 0 /\ pipeEnv.pages = 2
    /\ pipeOut.result.success /\ pipeOut.N = 2
    /\ Len(pipeEnv.notes) = 3 /\ Len(pipeOut.notes) = 2
    /\ Len(pipeOut.sections) = 2 /\ pipeOut.sections[2] # << >>
    /\ EmbedPages(pipeOut.md, PdfRef(PipeFile.stem)) = <<1, 2>>

\* what a recoverable step's failure is replaced by, and that the steps
\* after it ran
RecoveredAndContinued ==
    /\ pipeEnv.extract \in {"raise", "none"} => pipeOut.body = << >>
    /\ pipeEnv.stamp = "noop" => ~pipeOut.stamped
    /\ pipeEnv.notes = << >> => pipeOut.notes = Repeat(<< >>, pipeOut.N)
    /\ {"notes", "extract", "split", "build", "write"} \subseteq StepsRun

WroteAndSucceeded ==
    /\ pipeOut.result.success /\ pipeOut.result.error = None
    /\ pipeOut.md # NoneText
    /\ PipeMdPath \in pipeOut.files

====
